---- MODULE Spec2Model ----
(***************************************************************************)
(* Model of SalesforceCliConnector (src/src/SalesforceCliConnector.js):    *)
(* the getConnection -> getConnectionDetail -> getOrgDetail promise chain  *)
(* driven by the child process's stream events, and the filesystem         *)
(* helpers readJSON, readFile, writeFile and listFiles.                    *)
(*                                                                         *)
(* Two connector instances ("runs") are driven side by side by the same    *)
(* subprocess events and the same filesystem behaviour; they differ only   *)
(* in the TRACE_LEVEL they were constructed under.                         *)
(***************************************************************************)
EXTENDS Integers, Sequences, FiniteSets, TLC

(***************************************************************************)
(* JavaScript values.  Every value is a record tagged by t.                *)
(***************************************************************************)
Undefined == [t |-> "undefined"]
JNull == [t |-> "null"]
JBool(b) == [t |-> "bool", b |-> b]
JNum(n) == [t |-> "num", n |-> n]
JStr(s) == [t |-> "str", s |-> s]
JArr(es) == [t |-> "arr", e |-> es]
JObj(ms) == [t |-> "obj", m |-> ms]
Member(k, v) == [k |-> k, v |-> v]
\* a value JSON.stringify throws on (a circular structure, a BigInt)
Circular == [t |-> "circular"]

\* property read obj.key: undefined when the property is absent
Get(obj, key) ==
  IF obj.t = "obj" /\ \E i \in 1..Len(obj.m) : obj.m[i].k = key
  THEN obj.m[CHOOSE i \in 1..Len(obj.m) : obj.m[i].k = key].v
  ELSE Undefined

\* property write on an object under construction: a repeated key keeps its
\* place and takes the later value
SetMember(ms, key, val) ==
  IF \E i \in 1..Len(ms) : ms[i].k = key
  THEN [i \in 1..Len(ms) |-> IF ms[i].k = key THEN Member(key, val) ELSE ms[i]]
  ELSE Append(ms, Member(key, val))

(***************************************************************************)
(* Text.  A text is a sequence of lexical tokens; concatenating texts is   *)
(* concatenating sequences.                                                *)
(***************************************************************************)
P(c) == [k |-> "p", c |-> c]
L(c) == [k |-> "lit", c |-> c]
N(n) == [k |-> "num", n |-> n]
S(s) == [k |-> "str", s |-> s]
W(n) == [k |-> "ws", n |-> n]
X(c) == [k |-> "txt", c |-> c]
IsP(tok, c) == tok.k = "p" /\ tok.c = c

RECURSIVE SkipWs(_)
SkipWs(s) == IF s # <<>> /\ Head(s).k = "ws" THEN SkipWs(Tail(s)) ELSE s

(***************************************************************************)
(* JSON.parse                                                              *)
(***************************************************************************)
EndOfInput == "Unexpected end of JSON input"
UnexpectedToken == "Unexpected token"
Ok(v, rest) == [ok |-> TRUE, val |-> v, rest |-> rest, msg |-> ""]
Fail(msg) == [ok |-> FALSE, val |-> Undefined, rest |-> <<>>, msg |-> msg]

RECURSIVE ParseValue(_), ParseMember(_, _), ParseElement(_, _)
ParseValue(s) ==
  LET t == SkipWs(s) IN
  IF t = <<>> THEN Fail(EndOfInput)
  ELSE LET h == Head(t) IN
    CASE h.k = "lit" ->
           Ok(IF h.c = "null" THEN JNull ELSE JBool(h.c = "true"), Tail(t))
      [] h.k = "num" -> Ok(JNum(h.n), Tail(t))
      [] h.k = "str" -> Ok(JStr(h.s), Tail(t))
      [] IsP(h, "{") ->
           LET u == SkipWs(Tail(t)) IN
           IF u = <<>> THEN Fail(EndOfInput)
           ELSE IF IsP(Head(u), "}") THEN Ok(JObj(<<>>), Tail(u))
           ELSE ParseMember(u, <<>>)
      [] IsP(h, "[") ->
           LET u == SkipWs(Tail(t)) IN
           IF u = <<>> THEN Fail(EndOfInput)
           ELSE IF IsP(Head(u), "]") THEN Ok(JArr(<<>>), Tail(u))
           ELSE ParseElement(u, <<>>)
      [] OTHER -> Fail(UnexpectedToken)

ParseMember(s, acc) ==
  LET t == SkipWs(s) IN
  IF t = <<>> THEN Fail(EndOfInput)
  ELSE IF Head(t).k # "str" THEN Fail(UnexpectedToken)
  ELSE LET u == SkipWs(Tail(t)) IN
    IF u = <<>> THEN Fail(EndOfInput)
    ELSE IF ~IsP(Head(u), ":") THEN Fail(UnexpectedToken)
    ELSE LET r == ParseValue(Tail(u)) IN
      IF ~r.ok THEN r
      ELSE LET acc2 == SetMember(acc, Head(t).s, r.val)
               w == SkipWs(r.rest) IN
        IF w = <<>> THEN Fail(EndOfInput)
        ELSE IF IsP(Head(w), ",") THEN ParseMember(Tail(w), acc2)
        ELSE IF IsP(Head(w), "}") THEN Ok(JObj(acc2), Tail(w))
        ELSE Fail(UnexpectedToken)

ParseElement(s, acc) ==
  LET r == ParseValue(s) IN
  IF ~r.ok THEN r
  ELSE LET acc2 == Append(acc, r.val)
           w == SkipWs(r.rest) IN
    IF w = <<>> THEN Fail(EndOfInput)
    ELSE IF IsP(Head(w), ",") THEN ParseElement(Tail(w), acc2)
    ELSE IF IsP(Head(w), "]") THEN Ok(JArr(acc2), Tail(w))
    ELSE Fail(UnexpectedToken)

\* JSON.parse(text): the value, or the SyntaxError it throws
JSONparse(text) ==
  LET r == ParseValue(text) IN
  IF ~r.ok THEN r
  ELSE IF SkipWs(r.rest) # <<>> THEN Fail(UnexpectedToken)
  ELSE Ok(r.val, <<>>)

\* the Error object a failed parse throws
SyntaxErrorOf(r) ==
  [message |-> JStr(r.msg), stack |-> JStr("SyntaxError")]

(***************************************************************************)
(* JSON.stringify(value, null, 2)                                          *)
(***************************************************************************)
Indent == 2

RECURSIVE Stringify(_, _), StringifyMembers(_, _, _), StringifyElements(_, _, _)
Stringify(v, depth) ==
  CASE v.t = "null" -> <<L("null")>>
    [] v.t = "bool" -> <<L(IF v.b THEN "true" ELSE "false")>>
    [] v.t = "num" -> <<N(v.n)>>
    [] v.t = "str" -> <<S(v.s)>>
    [] v.t = "arr" ->
         IF v.e = <<>> THEN <<P("["), P("]")>>
         ELSE <<P("[")>> \o StringifyElements(v.e, 1, depth + 1)
              \o <<W(Indent * depth), P("]")>>
    [] v.t = "obj" ->
         IF v.m = <<>> THEN <<P("{"), P("}")>>
         ELSE <<P("{")>> \o StringifyMembers(v.m, 1, depth + 1)
              \o <<W(Indent * depth), P("}")>>

StringifyElements(es, i, depth) ==
  IF i > Len(es) THEN <<>>
  ELSE <<W(Indent * depth)>> \o Stringify(es[i], depth)
       \o (IF i < Len(es) THEN <<P(",")>> ELSE <<>>)
       \o StringifyElements(es, i + 1, depth)

StringifyMembers(ms, i, depth) ==
  IF i > Len(ms) THEN <<>>
  ELSE <<W(Indent * depth), S(ms[i].k), P(":")>> \o Stringify(ms[i].v, depth)
       \o (IF i < Len(ms) THEN <<P(",")>> ELSE <<>>)
       \o StringifyMembers(ms, i + 1, depth)

(***************************************************************************)
(* Errors                                                                  *)
(***************************************************************************)
\* a template string `${prefix}${arg}`
Tmpl(prefix, arg) == [t |-> "str", s |-> prefix, a |-> arg]

\* new DeveloperError(message, detailMessage, stack)
DeveloperError(message, detailMessage, stack) ==
  [cls |-> "DeveloperError", message |-> message,
   detailMessage |-> detailMessage, stack |-> stack]

\* a built-in Error (TypeError, SyntaxError, a spawn error): message and stack
JsError(cls, message) ==
  [cls |-> cls, message |-> JStr(message), detailMessage |-> Undefined,
   stack |-> JStr(cls)]

importError(err) ==
  IF err.cls = "DeveloperError" THEN err
  ELSE DeveloperError(err.message, JStr("unhandled exception"), err.stack)

ERROR_LEVEL_NONE == -1
ERROR_LEVEL_BASIC == 0
ERROR_LEVEL_DETAIL == 1

\* the lines DeveloperError.log(traceLevel) hands to the logger
log(traceLevel) ==
  IF traceLevel > ERROR_LEVEL_NONE
  THEN IF traceLevel = ERROR_LEVEL_BASIC
       THEN {<<"error", "Error occurred:%s">>}
       ELSE IF traceLevel > ERROR_LEVEL_BASIC
            THEN {<<"error", "Error occurred:%s \n %s \n %o">>}
            ELSE {}
  ELSE {}

(***************************************************************************)
(* Configuration                                                           *)
(***************************************************************************)
\* process.env.TRACE_LEVEL: absent, or what Number.parseInt makes of it
NoEnv == [has |-> FALSE, safe |-> FALSE, n |-> 0]
EnvInt(n) == [has |-> TRUE, safe |-> TRUE, n |-> n]
EnvNaN == [has |-> TRUE, safe |-> FALSE, n |-> 0]
TraceEnvs == {NoEnv, EnvInt(ERROR_LEVEL_NONE), EnvInt(ERROR_LEVEL_DETAIL), EnvNaN}

\* options objects handed to setOptions: {} or {traceLevel: n}
NoOptions == <<>>

setOptions(env, options) ==
  LET defaults == IF env.has /\ env.safe THEN env.n ELSE ERROR_LEVEL_BASIC
  IN IF options # <<>> THEN options[1] ELSE defaults

(***************************************************************************)
(* Promises                                                                *)
(***************************************************************************)
Pending == [state |-> "pending", value |-> Undefined]
Resolved(v) == [state |-> "resolved", value |-> v]
Rejected(e) == [state |-> "rejected", value |-> e]
Settled(p) == p.state # "pending"

(***************************************************************************)
(* getOrgDetail: the child process and its stream handlers                 *)
(***************************************************************************)
NoError == [cls |-> "none"]
OsErrors == {JsError("Error", "spawn sfdx ENOENT"), JsError("Error", "spawn sfdx EACCES")}

\* alias || 'default'
AliasOrDefault(a) == IF a = "" THEN "default" ELSE a

\* the captured buffer as a JavaScript string value
Text(s) == [t |-> "text", text |-> s]

\* proc.stdout.on('close'): reject when an 'error' was seen, else resolve
onStdoutClose(a, res, err) ==
  IF err # NoError
  THEN Rejected(DeveloperError(
         Tmpl("Error occurred while asking the salesforce cli for alias:", AliasOrDefault(a)),
         err.message, err.stack))
  ELSE Resolved(Text(res))

(***************************************************************************)
(* getConnectionDetail: what runs once the await of getOrgDetail resumes.  *)
(* pc is "done" when the executor returned and "threw" when it threw, in   *)
(* which case the promise handed to the caller is left as it was.          *)
(***************************************************************************)
CapturedLine == <<"info", "captured result: %o">>

\* a faulty catch: the message of the status branch
onParseErrorFind(a, e) ==
  Rejected(DeveloperError(Tmpl("Unable to find connection:", AliasOrDefault(a)),
                          e.message, e.stack))

\* the catch around JSON.parse
onParseError(a, e) ==
  Rejected(DeveloperError(Tmpl("Unable to get connection:", AliasOrDefault(a)),
                          e.message, e.stack))

\* a faulty branch: the tool's stack is dropped
onParsedNoStack(a, connObj) ==
  IF Get(connObj, "status") = JNum(0)
  THEN Resolved(Get(connObj, "result"))
  ELSE Rejected(DeveloperError(Tmpl("Unable to find connection:", AliasOrDefault(a)),
                               Get(connObj, "message"), Undefined))

\* a faulty branch: the whole response is resolved, not its result
onParsedWhole(a, connObj) ==
  IF Get(connObj, "status") = JNum(0)
  THEN Resolved(connObj)
  ELSE Rejected(DeveloperError(Tmpl("Unable to find connection:", AliasOrDefault(a)),
                               Get(connObj, "message"), Get(connObj, "stack")))

\* the branch on connObj.status, connObj being an object
onParsed(a, connObj) ==
  IF Get(connObj, "status") = JNum(0)
  THEN Resolved(Get(connObj, "result"))
  ELSE Rejected(DeveloperError(Tmpl("Unable to find connection:", AliasOrDefault(a)),
                               Get(connObj, "message"), Get(connObj, "stack")))

getConnectionDetailBody(a, od, level) ==
  IF od.state = "rejected"
  THEN [pc |-> "done", promise |-> Rejected(od.value), lines |-> {}]
  ELSE
    LET lines == IF level > ERROR_LEVEL_BASIC THEN {CapturedLine} ELSE {}
        r == JSONparse(od.value.text)
    IN IF ~r.ok
       THEN [pc |-> "done", promise |-> onParseError(a, SyntaxErrorOf(r)),
             lines |-> lines]
       ELSE IF r.val.t = "null"
       THEN \* connObj.status on null: a TypeError out of the async executor
            [pc |-> "threw", promise |-> Pending, lines |-> lines]
       ELSE [pc |-> "done", promise |-> onParsed(a, r.val), lines |-> lines]

(***************************************************************************)
(* getConnection: what runs once the await of getConnectionDetail resumes  *)
(***************************************************************************)
\* new JsForce.Connection({serverUrl, sessionId})
Connection(serverUrl, sessionId) ==
  [t |-> "connection", serverUrl |-> serverUrl, sessionId |-> sessionId]

\* a faulty catch: the error is passed on to the caller
getConnectionCatchRethrow(err, level) ==
  [promise |-> Rejected(err), lines |-> log(level)]

\* a faulty catch: resolve(null) sits inside the logging branch
getConnectionCatchGated(err, level) ==
  IF level > ERROR_LEVEL_NONE
  THEN [promise |-> Resolved(JNull), lines |-> log(level)]
  ELSE [promise |-> Pending, lines |-> {}]

\* catch (err): log the imported error, resolve(null)
getConnectionCatch(err, level) ==
  [promise |-> Resolved(JNull), lines |-> log(level)]

getConnectionBody(dp, level) ==
  IF dp.state = "rejected"
  THEN getConnectionCatch(importError(dp.value), level)
  ELSE IF dp.value.t \in {"undefined", "null"}
  THEN getConnectionCatch(
         importError(JsError("TypeError", "Cannot read properties of undefined")),
         level)
  ELSE [promise |-> Resolved(Connection(Get(dp.value, "instanceUrl"),
                                        Get(dp.value, "accessToken"))),
        lines |-> {}]

(***************************************************************************)
(* What the sfdx process may write: fragments of its --json output         *)
(***************************************************************************)
OkHead ==
  <<P("{"), W(2), S("status"), P(":"), N(0), P(","), W(2), S("result"), P(":")>>
OkTail ==
  <<P("{"), S("instanceUrl"), P(":"), S("https://x"), P(","),
    S("accessToken"), P(":"), S("tok"), P(","),
    S("username"), P(":"), S("u"), P("}"), W(0), P("}")>>
NoResult == <<P("{"), S("status"), P(":"), N(0), P("}")>>
ErrText ==
  <<P("{"), S("status"), P(":"), N(1), P(","), S("message"), P(":"),
    S("no such org"), P(","), S("stack"), P(":"), S("at x"), P("}")>>
NullText == <<L("null")>>
WarnText == <<X("WARN")>>
StdoutChunks == {OkHead, OkTail, NoResult, ErrText, NullText}
StderrChunks == {WarnText, ErrText}
Aliases == {"", "a"}
ExitCodes == {0, 1}

\* how many chunks the child writes in all
MaxChunks == 2

(***************************************************************************)
(* The filesystem.  A filesystem maps absolute paths to entries: a file    *)
(* with its text, a directory with its entry names, or nothing ("none").   *)
(***************************************************************************)
File(text) == [kind |-> "file", text |-> text, names |-> <<>>]
Dir(names) == [kind |-> "dir", text |-> <<>>, names |-> names]
Absent == [kind |-> "none", text |-> <<>>, names |-> <<>>]

Paths == {"data.json", "/cwd/data.json", "notes.txt", "tmp", "new.json"}
AbsPaths == {"/cwd/data.json", "/cwd/notes.txt", "/cwd/tmp", "/cwd/new.json"}

\* path.resolve(filePath), the working directory being /cwd
resolve(filePath) ==
  CASE filePath = "data.json" -> "/cwd/data.json"
    [] filePath = "notes.txt" -> "/cwd/notes.txt"
    [] filePath = "tmp" -> "/cwd/tmp"
    [] filePath = "new.json" -> "/cwd/new.json"
    [] OTHER -> filePath

\* what a helper's caller sees, and what the call left behind
Returned(value, caught, lines, f) ==
  [outcome |-> "returned", value |-> value, caught |-> caught, lines |-> lines, fs |-> f]
Threw(err, f) ==
  [outcome |-> "threw", value |-> err, caught |-> FALSE, lines |-> {}, fs |-> f]

\* results of the fs primitives: a value or a thrown error
FsOk(v) == [ok |-> TRUE, val |-> v, err |-> NoError]
FsErr(code) == [ok |-> FALSE, val |-> Undefined, err |-> JsError("Error", code)]

existsSync(f, p) == f[p].kind \in {"file", "dir"}

readFileSync(f, p) ==
  CASE f[p].kind = "file" -> FsOk(Text(f[p].text))
    [] f[p].kind = "dir" -> FsErr("EISDIR")
    [] OTHER -> FsErr("ENOENT")

\* fs-extra readJsonSync: read the file, then JSON.parse
readJsonSync(f, p) ==
  LET c == readFileSync(f, p) IN
  IF ~c.ok THEN c
  ELSE LET r == JSONparse(c.val.text) IN
       IF r.ok THEN FsOk(r.val) ELSE FsErr(r.msg)

\* fs-extra ensureDirSync: returns nothing for a directory, creates a missing
\* one, throws for a path that exists and is not a directory
ensureDirSync(f, p) ==
  CASE f[p].kind = "dir" -> FsOk(Undefined)
    [] f[p].kind = "file" -> FsErr("EEXIST")
    [] OTHER -> FsOk(Undefined)

readdirSync(f, p) ==
  CASE f[p].kind = "dir" -> FsOk([t |-> "names", names |-> f[p].names])
    [] f[p].kind = "file" -> FsErr("ENOTDIR")
    [] OTHER -> FsErr("ENOENT")

\* JavaScript truthiness of what ensureDirSync returns
Truthy(v) == v.t \notin {"undefined", "null"}

readJSON(f, filePath, level) ==
  LET resolvedPath == resolve(filePath) IN
  IF ~existsSync(f, resolvedPath)
  THEN Returned(Undefined, FALSE, {<<"error", "File does not exist: %s">>}, f)
  ELSE LET r == readJsonSync(f, resolvedPath) IN
       IF r.ok THEN Returned(r.val, FALSE, {}, f)
       ELSE Returned(Undefined, TRUE, log(level), f)

readFile(f, filePath, level) ==
  LET resolvedPath == resolve(filePath) IN
  IF ~existsSync(f, resolvedPath)
  THEN Returned(Undefined, FALSE, {<<"error", "File does not exist: %s">>}, f)
  ELSE LET r == readFileSync(f, resolvedPath) IN
       IF r.ok THEN Returned(r.val, FALSE, {}, f)
       ELSE Returned(Undefined, TRUE, log(level), f)

\* fs.writeFileSync(filePath, data): the operating system resolves filePath
\* against the working directory
writeFileSync(f, filePath, text) ==
  LET p == resolve(filePath) IN
  CASE f[p].kind = "dir" -> [ok |-> FALSE, fs |-> f, err |-> JsError("Error", "EISDIR")]
    [] OTHER -> [ok |-> TRUE, fs |-> [f EXCEPT ![p] = File(text)], err |-> NoError]

\* a faulty writeFile: a string is written as it is, without JSON quoting
writeFileRaw(f, filePath, contents, level, legacy) ==
  IF contents = Circular
  THEN Threw(JsError("TypeError", "Converting circular structure to JSON"), f)
  ELSE IF contents = Undefined /\ ~legacy
  THEN Returned(Undefined, TRUE, log(level), f)
  ELSE LET jsonContents == IF contents = Undefined THEN <<X("undefined")>>
                           ELSE IF contents.t = "str" THEN <<X(contents.s)>>
                           ELSE Stringify(contents, 0)
           w == writeFileSync(f, filePath, jsonContents)
       IN IF w.ok THEN Returned(Undefined, FALSE, {}, w.fs)
          ELSE Returned(Undefined, TRUE, log(level), f)

\* writeFile(filePath, contents).  JSON.stringify runs before the try block;
\* it returns undefined for undefined, which writeFileSync rejects with a
\* TypeError on current Node and wrote as the text undefined on old Node
\* (legacy).
writeFile(f, filePath, contents, level, legacy) ==
  IF contents = Circular
  THEN Threw(JsError("TypeError", "Converting circular structure to JSON"), f)
  ELSE IF contents = Undefined /\ ~legacy
  THEN Returned(Undefined, TRUE, log(level), f)
  ELSE LET jsonContents == IF contents = Undefined THEN <<X("undefined")>>
                           ELSE Stringify(contents, 0)
           w == writeFileSync(f, filePath, jsonContents)
       IN IF w.ok THEN Returned(Undefined, FALSE, {}, w.fs)
          ELSE Returned(Undefined, TRUE, log(level), f)

\* listFiles(directoryPath).  ensureDirSync runs outside the try block.
listFiles(f, directoryPath, level) ==
  LET resolvedPath == resolve(directoryPath) IN
  IF ~existsSync(f, resolvedPath)
  THEN Returned(Undefined, FALSE, {<<"error", "Path does not exist: %s">>}, f)
  ELSE LET e == ensureDirSync(f, resolvedPath) IN
    IF ~e.ok THEN Threw(e.err, f)
    ELSE IF Truthy(e.val)
    THEN Returned(Undefined, FALSE, {<<"error", "Path is not a directory:">>}, f)
    ELSE LET r == readdirSync(f, resolvedPath) IN
         IF r.ok THEN Returned(r.val, FALSE, {}, f)
         ELSE Returned(Undefined, TRUE, log(level), f)

\* the values handed to writeFile
JsonValues ==
  {JStr("1"),
   JArr(<<JNull, JObj(<<Member("a", JBool(TRUE)), Member("n", JNum(1))>>)>>)}
Values == JsonValues \cup {Circular, Undefined}

InitialFs ==
  [p \in AbsPaths |->
     CASE p = "/cwd/data.json" -> File(Stringify(JObj(<<Member("a", JNum(1))>>), 0))
       [] p = "/cwd/notes.txt" -> File(<<X("hello")>>)
       [] p = "/cwd/tmp" -> Dir(<<"README.md", "allFields.json">>)
       [] OTHER -> Absent]

\* the latest helper call of a run
NoCall ==
  [op |-> "none", path |-> "", arg |-> Undefined, outcome |-> "returned",
   value |-> Undefined, caught |-> FALSE]
Call(op, path, arg, res) ==
  [op |-> op, path |-> path, arg |-> arg, outcome |-> res.outcome,
   value |-> res.value, caught |-> res.caught]

Runs == {1, 2}

VARIABLES
  traceLevel,   \* [run]: this.traceLevel
  alias,        \* the alias getConnection was called with
  child,        \* "none", "running" (spawned) or "failed" (could not be launched)
  stdoutClosed, \* the child's stdout emitted 'close'
  errorEmitted, \* the child emitted 'error'
  closeCode,    \* the argument of the 'close' event, once it fired
  emitted,      \* the chunks the child wrote so far, in arrival order
  results,      \* [run]: getOrgDetail's results
  streamError,  \* [run]: getOrgDetail's streamError
  orgDetail,    \* [run]: the promise getOrgDetail returned
  detail,       \* [run]: the promise getConnectionDetail returned
  pcDetail,     \* [run]: getConnectionDetail's executor: idle, await, done, threw
  connection,   \* [run]: the promise getConnection returned
  pcConn,       \* [run]: getConnection's executor: idle, await, done
  logged,       \* [run]: the log lines of the latest step
  fs,           \* [run]: the filesystem the run works on
  lastCall      \* [run]: the latest filesystem helper call and its outcome

connVars == <<alias, child, stdoutClosed, errorEmitted, closeCode, emitted, results,
              streamError, orgDetail, detail, pcDetail, connection, pcConn>>
fsVars == <<fs, lastCall>>
vars == <<traceLevel, connVars, logged, fsVars>>

Init ==
  /\ \E env \in [Runs -> TraceEnvs] :
       traceLevel = [r \in Runs |-> setOptions(env[r], NoOptions)]
  /\ alias = ""
  /\ child = "none"
  /\ stdoutClosed = FALSE
  /\ errorEmitted = FALSE
  /\ closeCode = <<>>
  /\ emitted = <<>>
  /\ results = [r \in Runs |-> <<>>]
  /\ streamError = [r \in Runs |-> NoError]
  /\ orgDetail = [r \in Runs |-> Pending]
  /\ detail = [r \in Runs |-> Pending]
  /\ pcDetail = [r \in Runs |-> "idle"]
  /\ connection = [r \in Runs |-> Pending]
  /\ pcConn = [r \in Runs |-> "idle"]
  /\ logged = [r \in Runs |-> {}]
  /\ fs = [r \in Runs |-> InitialFs]
  /\ lastCall = [r \in Runs |-> NoCall]

\* connector.getConnection(a): runs synchronously down to childProcess.spawn
GetConnection(a, launched) ==
  /\ child = "none"
  /\ \A r \in Runs : lastCall[r] = NoCall
  /\ alias' = a
  /\ child' = IF launched THEN "running" ELSE "failed"
  /\ results' = [r \in Runs |-> <<>>]
  /\ streamError' = [r \in Runs |-> NoError]
  /\ pcDetail' = [r \in Runs |-> "await"]
  /\ pcConn' = [r \in Runs |-> "await"]
  /\ logged' = [r \in Runs |-> {}]
  /\ UNCHANGED <<traceLevel, stdoutClosed, errorEmitted, closeCode, emitted,
                 orgDetail, detail, connection, fsVars>>

\* proc.stdout.on('data')
StdoutData(chunk) ==
  /\ child = "running"
  /\ ~stdoutClosed
  /\ Len(emitted) < MaxChunks
  /\ results' = [r \in Runs |-> results[r] \o chunk]
  /\ emitted' = Append(emitted, chunk)
  /\ UNCHANGED <<traceLevel, alias, child, stdoutClosed, errorEmitted, closeCode,
                 streamError, orgDetail, detail, pcDetail, connection, pcConn, logged, fsVars>>

\* proc.stderr.on('data'): stderr is its own stream and may outlive stdout
StderrData(chunk) ==
  /\ child = "running"
  /\ Len(emitted) < MaxChunks
  /\ results' = [r \in Runs |-> results[r] \o chunk]
  /\ emitted' = Append(emitted, chunk)
  /\ UNCHANGED <<traceLevel, alias, child, stdoutClosed, errorEmitted, closeCode,
                 streamError, orgDetail, detail, pcDetail, connection, pcConn, logged, fsVars>>

\* proc.on('error'): the process could not be launched
ProcError(err) ==
  /\ child = "failed"
  /\ ~errorEmitted
  /\ errorEmitted' = TRUE
  /\ streamError' = [r \in Runs |-> err]
  /\ UNCHANGED <<traceLevel, alias, child, stdoutClosed, closeCode, emitted, results,
                 orgDetail, detail, pcDetail, connection, pcConn, logged, fsVars>>

\* proc.stdout.on('close')
StdoutClose(code) ==
  /\ child # "none"
  /\ ~stdoutClosed
  /\ stdoutClosed' = TRUE
  /\ closeCode' = <<code>>
  /\ orgDetail' = [r \in Runs |-> onStdoutClose(alias, results[r], streamError[r])]
  /\ UNCHANGED <<traceLevel, alias, child, errorEmitted, emitted, results,
                 streamError, detail, pcDetail, connection, pcConn, logged, fsVars>>

\* the await in getConnectionDetail resumes
CanDetailContinue(r) == pcDetail[r] = "await" /\ Settled(orgDetail[r])

DetailContinue(r) ==
  /\ CanDetailContinue(r)
  /\ LET b == getConnectionDetailBody(alias, orgDetail[r], traceLevel[r]) IN
       /\ pcDetail' = [pcDetail EXCEPT ![r] = b.pc]
       /\ detail' = [detail EXCEPT ![r] = b.promise]
       /\ logged' = [logged EXCEPT ![r] = b.lines]
  /\ UNCHANGED <<traceLevel, alias, child, stdoutClosed, errorEmitted, closeCode,
                 emitted, results, streamError, orgDetail, connection, pcConn, fsVars>>

\* the await in getConnection resumes
CanConnectionContinue(r) == pcConn[r] = "await" /\ Settled(detail[r])

ConnectionContinue(r) ==
  /\ CanConnectionContinue(r)
  /\ LET b == getConnectionBody(detail[r], traceLevel[r]) IN
       /\ connection' = [connection EXCEPT ![r] = b.promise]
       /\ logged' = [logged EXCEPT ![r] = b.lines]
  /\ pcConn' = [pcConn EXCEPT ![r] = "done"]
  /\ UNCHANGED <<traceLevel, alias, child, stdoutClosed, errorEmitted, closeCode,
                 emitted, results, streamError, orgDetail, detail, pcDetail, fsVars>>

\* A helper call: both runs make the same call on their own filesystem.
\* The helpers are synchronous; they are explored in sessions that have not
\* asked for a connection, with which they share nothing but traceLevel.
Helper(op, path, arg, res) ==
  /\ child = "none"
  /\ fs' = [r \in Runs |-> res[r].fs]
  /\ lastCall' = [r \in Runs |-> Call(op, path, arg, res[r])]
  /\ logged' = [r \in Runs |-> res[r].lines]
  /\ UNCHANGED <<traceLevel, connVars>>

ReadJSON(path) ==
  Helper("readJSON", path, Undefined,
         [r \in Runs |-> readJSON(fs[r], path, traceLevel[r])])

ReadFile(path) ==
  Helper("readFile", path, Undefined,
         [r \in Runs |-> readFile(fs[r], path, traceLevel[r])])

WriteFile(path, contents, legacy) ==
  Helper("writeFile", path, contents,
         [r \in Runs |-> writeFile(fs[r], path, contents, traceLevel[r], legacy)])

ListFiles(path) ==
  Helper("listFiles", path, Undefined,
         [r \in Runs |-> listFiles(fs[r], path, traceLevel[r])])

Next ==
  \/ \E a \in Aliases, launched \in BOOLEAN : GetConnection(a, launched)
  \/ \E chunk \in StdoutChunks : StdoutData(chunk)
  \/ \E chunk \in StderrChunks : StderrData(chunk)
  \/ \E err \in OsErrors : ProcError(err)
  \/ \E code \in ExitCodes : StdoutClose(code)
  \/ \E r \in Runs : DetailContinue(r)
  \/ \E r \in Runs : ConnectionContinue(r)
  \/ \E path \in Paths : ReadJSON(path)
  \/ \E path \in Paths : ReadFile(path)
  \/ \E path \in Paths, contents \in Values :
       \E legacy \in (IF contents = Undefined THEN BOOLEAN ELSE {FALSE}) :
         WriteFile(path, contents, legacy)
  \/ \E path \in Paths : ListFiles(path)

Spec == Init /\ [][Next]_vars

(***************************************************************************)
(* Properties                                                              *)
(***************************************************************************)
RECURSIVE Flatten(_)
Flatten(chunks) ==
  IF chunks = <<>> THEN <<>> ELSE Head(chunks) \o Flatten(Tail(chunks))

\* resolution failed: getConnectionDetail rejected, or resolved without a
\* result record
ResolutionFailed(r) ==
  \/ detail[r].state = "rejected"
  \/ detail[r].state = "resolved" /\ detail[r].value = Undefined

\* C1: however resolution fails (launch failure, unparsable output, non-zero
\* status, zero status without a result record), getConnection's promise is
\* never rejected, and once its continuation ran it is resolved with null.
C1_FailureYieldsNull ==
  \A r \in Runs :
    /\ connection[r].state # "rejected"
    /\ (pcConn[r] = "done" /\ ResolutionFailed(r)) => connection[r] = Resolved(JNull)

\* a zero status without a result record ended in the null sentinel
C1_Witness ==
  /\ pcConn[1] = "done"
  /\ detail[1] = Resolved(Undefined)
  /\ connection[1] = Resolved(JNull)

ToolUnavailable(a, err) ==
  DeveloperError(
    Tmpl("Error occurred while asking the salesforce cli for alias:", AliasOrDefault(a)),
    err.message, err.stack)

\* C2: when the child process cannot be launched, getOrgDetail never resolves
\* with the captured buffer; when it settles it rejects with ToolUnavailable
\* naming the alias and carrying the OS error, and getConnectionDetail never
\* rejects with MalformedResponse; this under every order of 'error' and 'close'.
C2_LaunchFailureIsToolUnavailable ==
  \A r \in Runs :
    child = "failed" =>
      /\ orgDetail[r].state # "resolved"
      /\ orgDetail[r].state = "rejected" =>
           \E err \in OsErrors : orgDetail[r].value = ToolUnavailable(alias, err)
      /\ detail[r].state = "rejected" =>
           detail[r].value.message # Tmpl("Unable to get connection:", AliasOrDefault(alias))

\* C3: once getConnectionDetail's continuation ran on a captured buffer that is
\* not valid JSON, its promise is rejected with MalformedResponse: "Unable to
\* get connection:<alias or default>", detail and stack those of the parse error.
C3_NonJsonIsMalformedResponse ==
  \A r \in Runs :
    (/\ pcDetail[r] \in {"done", "threw"}
     /\ orgDetail[r].state = "resolved"
     /\ ~JSONparse(orgDetail[r].value.text).ok)
    => detail[r] = Rejected(DeveloperError(
                     Tmpl("Unable to get connection:", AliasOrDefault(alias)),
                     JStr(JSONparse(orgDetail[r].value.text).msg),
                     JStr("SyntaxError")))

\* the empty buffer was rejected as MalformedResponse
C3_Witness ==
  /\ orgDetail[1] = Resolved(Text(<<>>))
  /\ detail[1].state = "rejected"
  /\ detail[1].value.detailMessage = JStr(EndOfInput)

\* the status field of the captured buffer, parsed
StatusOf(r) == Get(JSONparse(orgDetail[r].value.text).val, "status")

\* C4: once getConnectionDetail's continuation ran on a captured buffer that
\* parses as JSON with a non-zero status, its promise is rejected with
\* ResolutionFailed: "Unable to find connection:<alias or default>", detail and
\* stack exactly the tool's message and stack.
C4_NonZeroStatusIsResolutionFailed ==
  \A r \in Runs :
    (/\ pcDetail[r] \in {"done", "threw"}
     /\ orgDetail[r].state = "resolved"
     /\ JSONparse(orgDetail[r].value.text).ok
     /\ StatusOf(r) \notin {Undefined, JNum(0)})
    => LET connObj == JSONparse(orgDetail[r].value.text).val IN
       detail[r] = Rejected(DeveloperError(
                     Tmpl("Unable to find connection:", AliasOrDefault(alias)),
                     Get(connObj, "message"), Get(connObj, "stack")))

\* the tool's own failure report was passed on
C4_Witness ==
  /\ orgDetail[1].state = "resolved"
  /\ detail[1].state = "rejected"
  /\ detail[1].value.detailMessage = JStr("no such org")
  /\ detail[1].value.stack = JStr("at x")

\* C5: once getConnectionDetail's continuation ran on a captured buffer that
\* parses as JSON with status 0, its promise is resolved with the result member
\* as parsed; and once getConnection's continuation ran on a result record, its
\* promise is resolved with the connection whose serverUrl is the record's
\* instanceUrl and whose sessionId is its accessToken, whatever else the record
\* holds and whatever code the close event carried.
C5_ZeroStatusYieldsResultAndConnection ==
  \A r \in Runs :
    (/\ pcDetail[r] \in {"done", "threw"}
     /\ orgDetail[r].state = "resolved"
     /\ JSONparse(orgDetail[r].value.text).ok
     /\ StatusOf(r) = JNum(0))
    => LET result == Get(JSONparse(orgDetail[r].value.text).val, "result") IN
       /\ detail[r] = Resolved(result)
       /\ (pcConn[r] = "done" /\ result.t = "obj")
          => connection[r] = Resolved(Connection(Get(result, "instanceUrl"),
                                                 Get(result, "accessToken")))

\* a connection was built from the record although the close code was not 0
C5_Witness ==
  /\ closeCode = <<1>>
  /\ detail[1].state = "resolved"
  /\ Get(detail[1].value, "username") = JStr("u")
  /\ connection[1] = Resolved(Connection(JStr("https://x"), JStr("tok")))

\* C6: when getOrgDetail has resolved, the buffer it resolved with is the
\* concatenation of every chunk the child wrote, in arrival order.
C6_BufferHoldsEveryChunk ==
  \A r \in Runs :
    orgDetail[r].state = "resolved" => orgDetail[r].value = Text(Flatten(emitted))

\* C7: no filesystem helper call ends in an exception.
C7_NoHelperThrows ==
  \A r \in Runs : lastCall[r].outcome # "threw"

C9_TraceLevelOnlyLogs ==
  \A r1 \in Runs, r2 \in Runs :
    /\ orgDetail[r1] = orgDetail[r2]
    /\ (pcDetail[r1] # "await" /\ pcDetail[r2] # "await")
       => (pcDetail[r1] = pcDetail[r2] /\ detail[r1] = detail[r2])
    /\ (pcConn[r1] = "done" /\ pcConn[r2] = "done")
       => connection[r1] = connection[r2]
    /\ lastCall[r1] = lastCall[r2]
    /\ fs[r1] = fs[r2]

\* a silent run and a logging run reached the same null sentinel
C9_Witness ==
  /\ traceLevel[1] = ERROR_LEVEL_NONE
  /\ traceLevel[2] = ERROR_LEVEL_DETAIL
  /\ pcConn[1] = "done" /\ pcConn[2] = "done"
  /\ logged[1] = {} /\ logged[2] # {}
  /\ connection[1] = Resolved(JNull)

\* C10: once stdout has closed, the promises of getConnectionDetail and
\* getConnection settle: when no continuation of the run is left to execute,
\* both are settled.
C10_SettledAfterClose ==
  \A r \in Runs :
    (/\ stdoutClosed
     /\ ~CanDetailContinue(r)
     /\ ~CanConnectionContinue(r))
    => (Settled(detail[r]) /\ Settled(connection[r]))
====
